---- MODULE Spec2Model ----
(***************************************************************************)
(* The chat relay of sections/01_rust_projects/030_chat_app_backend:       *)
(* ServerState (message_history behind a Mutex, message_channel a tokio    *)
(* broadcast::Sender created with capacity 32) and one handle_socket task  *)
(* per connection.  The runtime is #[tokio::main] (multi-threaded), so two *)
(* handle_socket tasks interleave at every statement that touches shared   *)
(* state, not only at .await points.                                       *)
(*                                                                         *)
(* A message is the String the code stores, together with bookkeeping the  *)
(* code does not keep: id (its position in the order of channel sends),    *)
(* from (the session whose client sent the frame), kind and payload (the   *)
(* frame it was taken from).  text is the String itself.                   *)
(*                                                                         *)
(* Two more programs of the repository follow the relay, each with its own *)
(* variables and its own specifications: the request of                    *)
(* sections/02_rust_project_concepts/01_rust_enums and the Mandelbrot      *)
(* renderer of sections/00_rust_concepts/00_rust_intro.  The programs are  *)
(* separate processes; a specification runs one of them and leaves the     *)
(* variables of the others as they are before the program starts.          *)
(***************************************************************************)
EXTENDS Integers, Sequences, FiniteSets, TLC

\* ---------------------------------------------------------------- bounds
\* connections the server accepts
NSessions == 3
\* values sent on message_channel in all
MaxPub == 2
\* connections, and sends beyond the channel's capacity, of the long run
NLagSessions == 2
\* connections of the fair run
NFairSessions == 2
LagExtra == 2
\* error codes 0..MaxCode stand for the u32 that random() draws; the code is
\* stored and printed, never calculated with
MaxCode == 20
\* calls of advance_request on one request when it is called on its own
MaxCalls == 3

\* ------------------------------------------------------ program constants
\* broadcast::channel(32)
Capacity == 32
\* const HEIGHT, const THREADS of the renderer
HEIGHT == 24
THREADS == 4

Sessions == 1..NSessions
Texts == {"a", "b"}

VARIABLES
    history,   \* message_history: Vec<String>
    chan,      \* every value sent on message_channel, in send order
    pc,        \* position of each handle_socket task
    snap,      \* messages: the clone of message_history taken at line 47
    idx,       \* number of snapshot messages the for loop has gone through
    subPos,    \* length of chan when recv was created (line 56)
    cursor,    \* next position recv will read, as a count of chan entries
    stream,    \* values recv.recv() has returned Ok for
    out,       \* frames socket.send delivered to the client
    closed,    \* the client has sent its Close frame
    doneAt,    \* length of chan when the task ended
    rx         \* receivers of message_channel that have not been dropped

vars == <<history, chan, pc, snap, idx, subPos, cursor, stream, out, closed, doneAt, rx>>

\* the request of 01_rust_enums
VARIABLES
    request,   \* the Status that advance_request is given, main's request
    calls,     \* calls of advance_request so far
    rpc,       \* position of main, or of the caller of advance_request
    status,    \* request.into(): None, Some(Ok(msg)) or Some(Err(code))
    printed    \* the lines main has printed

reqVars == <<request, calls, rpc, status, printed>>

\* the renderer of 00_rust_intro
VARIABLES
    output,    \* the array behind the Mutex: one Option per thread index
    mutex,     \* who holds the lock of output: "free", "main" or a thread
    tpc,       \* position of each spawned thread
    chunk,     \* output_chunk of each thread: the rows it has calculated
    mpc,       \* position of main
    mi,        \* main's loop variable: thread to spawn, to join, chunk to show
    shown,     \* the rows main has printed
    stores     \* per slot of output, the threads that stored into it

mandelVars == <<output, mutex, tpc, chunk, mpc, mi, shown, stores>>

\* -------------------------------------------------------------- helpers
Last(q) == q[Len(q)]

Range(q) == {q[i] : i \in 1..Len(q)}

Ids(q) == {q[i].id : i \in 1..Len(q)}

\* position of the message with identity k in q, 0 when absent
RECURSIVE PosFrom(_, _, _)
PosFrom(q, k, i) ==
    IF i > Len(q) THEN 0
    ELSE IF q[i].id = k THEN i
    ELSE PosFrom(q, k, i + 1)

Pos(q, k) == PosFrom(q, k, 1)

\* ------------------------------------------------- frames of the client
\* axum::extract::ws::Message: Text and Binary carry a payload, utf8 tells
\* whether the payload is valid UTF-8 (a Text payload always is); Close is
\* Close(None).
Frames ==
    [kind : {"Text"}, payload : Texts, utf8 : {TRUE}]
    \cup [kind : {"Binary"}, payload : {"c"}, utf8 : BOOLEAN]
    \cup [kind : {"Close"}, payload : {""}, utf8 : {TRUE}]

\* what socket.recv() yields: a frame, or the end of the stream (None), or
\* Some(Err(_))
Events == [tag : {"Frame"}, frame : Frames]
          \cup {[tag |-> "None"], [tag |-> "Err"]}

\* an into_text that loses the text of "b"
IntoTextLossy(f) ==
    IF f.kind = "Text" /\ f.payload = "b"
    THEN [ok |-> TRUE, text |-> ""]
    ELSE [ok |-> f.utf8, text |-> IF f.utf8 THEN f.payload ELSE ""]

\* Message::into_text: Text gives its string, Binary (as Ping and Pong)
\* gives its bytes when these are valid UTF-8 and an error otherwise,
\* Close(None) gives the empty string.
IntoText(f) ==
    CASE f.kind = "Text" -> [ok |-> TRUE, text |-> f.payload]
      [] f.kind \in {"Binary", "Ping", "Pong"} ->
            IF f.utf8 THEN [ok |-> TRUE, text |-> f.payload]
            ELSE [ok |-> FALSE, text |-> ""]
      [] f.kind = "Close" -> [ok |-> TRUE, text |-> ""]

\* ------------------------------------------------ the broadcast channel
\* the ways out of handle_socket, by the line of the return or break
Exits == {"ret52", "brk63", "ret68", "brk73", "brk80"}

Done(s) == pc[s] \in Exits

\* sessions that own a live broadcast::Receiver
Subscribed == {s \in Sessions : pc[s] \in {"loop", "fwd", "push"}}

\* a channel that counts as closed once any receiver was dropped
ReceiverCountClosedByDrop ==
    IF \E t \in Sessions : Done(t) THEN 0 ELSE rx

\* a send that fails unless a session other than the sender listens
ReceiverCountOthers == Cardinality(Subscribed) - 1

\* Sender::receiver_count: _rx of main, which lives as long as the server,
\* and the recv of every session that subscribed and has not ended
ReceiverCount == rx

\* a receiver that starts at the oldest value the channel retains
SubscribeOldest == IF Len(chan) > Capacity THEN Len(chan) - Capacity ELSE 0

\* Sender::subscribe: the new receiver starts at the tail
SubscribePos == Len(chan)

\* a send that waits while the buffer of some receiver is full
CanSendWhenRoom == \A s \in Subscribed : Len(chan) - cursor[s] < Capacity

\* Sender::send is not async: it never waits for a receiver
CanSend == TRUE

\* a ring that keeps one value less than the lag check assumes
RecvResultShortRing(s) ==
    IF Len(chan) - cursor[s] > Capacity THEN [tag |-> "Lagged"]
    ELSE IF Len(chan) - cursor[s] = Capacity
    THEN [tag |-> "Ok", val |-> chan[cursor[s] + 2]]
    ELSE IF cursor[s] < Len(chan) THEN [tag |-> "Ok", val |-> chan[cursor[s] + 1]]
    ELSE [tag |-> "Pending"]

\* a receiver that is not handed the values its own session sent
RecvResultNotOwn(s) ==
    IF Len(chan) - cursor[s] > Capacity THEN [tag |-> "Lagged"]
    ELSE IF cursor[s] < Len(chan) /\ chan[cursor[s] + 1].from # s
    THEN [tag |-> "Ok", val |-> chan[cursor[s] + 1]]
    ELSE [tag |-> "Pending"]

\* a receiver that hands out the newest value first
RecvResultNewestFirst(s) ==
    IF Len(chan) - cursor[s] > Capacity THEN [tag |-> "Lagged"]
    ELSE IF cursor[s] < Len(chan)
    THEN [tag |-> "Ok", val |-> chan[Len(chan) - (cursor[s] - subPos[s])]]
    ELSE [tag |-> "Pending"]

\* Receiver::recv: Lagged when more than Capacity values were sent since the
\* one it would read next, Ok(value) when one is there, pending otherwise
RecvResult(s) ==
    IF Len(chan) - cursor[s] > Capacity THEN [tag |-> "Lagged"]
    ELSE IF cursor[s] < Len(chan) THEN [tag |-> "Ok", val |-> chan[cursor[s] + 1]]
    ELSE [tag |-> "Pending"]

\* the value the session sent first on message_channel
FirstSent(s) ==
    CHOOSE m \in Range(chan) :
        /\ m.from = s
        /\ \A n \in Range(chan) : n.from = s => n.id >= m.id

\* the value the session sent last on message_channel
LastSent(s) ==
    CHOOSE m \in Range(chan) :
        /\ m.from = s
        /\ \A n \in Range(chan) : n.from = s => n.id <= m.id

\* ------------------------------------------------------------------ Init
RelayInit ==
    /\ history = <<>>
    /\ chan = <<>>
    /\ pc = [s \in Sessions |-> "idle"]
    /\ snap = [s \in Sessions |-> <<>>]
    /\ idx = [s \in Sessions |-> 0]
    /\ subPos = [s \in Sessions |-> 0]
    /\ cursor = [s \in Sessions |-> 0]
    /\ stream = [s \in Sessions |-> <<>>]
    /\ out = [s \in Sessions |-> <<>>]
    /\ closed = [s \in Sessions |-> FALSE]
    /\ doneAt = [s \in Sessions |-> 0]
    /\ rx = 1

\* the request program before main has run
RequestOff ==
    /\ request = [tag |-> "Started"]
    /\ calls = 0
    /\ rpc = "off"
    /\ status = [tag |-> "None"]
    /\ printed = <<>>

\* the renderer before main has run
MandelOff ==
    /\ output = [i \in 0..(THREADS - 1) |-> [tag |-> "None"]]
    /\ mutex = "free"
    /\ tpc = [i \in 0..(THREADS - 1) |-> "unspawned"]
    /\ chunk = [i \in 0..(THREADS - 1) |-> <<>>]
    /\ mpc = "off"
    /\ mi = 0
    /\ shown = <<>>
    /\ stores = [i \in 0..(THREADS - 1) |-> <<>>]

Init == RelayInit /\ RequestOff /\ MandelOff

\* --------------------------------------------------------------- actions
\* a task that gives up a receiver although it never subscribed
ReleasedAlways(s) == 1

\* receivers dropped when the task of s ends: recv, when line 56 was reached
Released(s) == IF s \in Subscribed THEN 1 ELSE 0

\* handle_socket returns: messages, recv and socket are dropped
Exit(s, label) ==
    /\ pc' = [pc EXCEPT ![s] = label]
    /\ snap' = [snap EXCEPT ![s] = <<>>]
    /\ idx' = [idx EXCEPT ![s] = 0]
    /\ subPos' = [subPos EXCEPT ![s] = 0]
    /\ cursor' = [cursor EXCEPT ![s] = 0]
    /\ stream' = [stream EXCEPT ![s] = <<>>]
    /\ closed' = [closed EXCEPT ![s] = FALSE]
    /\ doneAt' = [doneAt EXCEPT ![s] = Len(chan)]
    /\ rx' = rx - Released(s)

\* line 47: a connection was upgraded; clone the history under the lock
Connect(s) ==
    /\ pc[s] = "idle"
    /\ snap' = [snap EXCEPT ![s] = history]
    /\ pc' = [pc EXCEPT ![s] = "replay"]
    /\ UNCHANGED <<history, chan, idx, subPos, cursor, stream, out, closed, doneAt, rx>>

\* a failed replay send that leaves the for loop only, and goes on to line 56
OnReplayFailBreak(s) ==
    /\ idx' = [idx EXCEPT ![s] = Len(snap[s])]
    /\ UNCHANGED <<pc, snap, subPos, cursor, stream, closed, doneAt, rx, out>>

\* lines 50-53: socket.send failed during the replay; return
OnReplayFail(s) ==
    /\ Exit(s, "ret52")
    /\ UNCHANGED out

\* a replay that reads the shared history instead of its clone
ReplaySendLive(s, ok) ==
    /\ pc[s] = "replay"
    /\ idx[s] < Len(history)
    /\ IF ok
       THEN /\ out' = [out EXCEPT ![s] = Append(@, history[idx[s] + 1])]
            /\ idx' = [idx EXCEPT ![s] = @ + 1]
            /\ UNCHANGED <<pc, snap, subPos, cursor, stream, closed, doneAt, rx>>
       ELSE OnReplayFail(s)
    /\ UNCHANGED <<history, chan>>

\* lines 49-54: one socket.send of the replay; a failed send returns
ReplaySend(s, ok) ==
    /\ pc[s] = "replay"
    /\ idx[s] < Len(snap[s])
    /\ IF ok
       THEN /\ out' = [out EXCEPT ![s] = Append(@, snap[s][idx[s] + 1])]
            /\ idx' = [idx EXCEPT ![s] = @ + 1]
            /\ UNCHANGED <<pc, snap, subPos, cursor, stream, closed, doneAt, rx>>
       ELSE OnReplayFail(s)
    /\ UNCHANGED <<history, chan>>

\* line 56: the replay is over; subscribe to the channel
Subscribe(s) ==
    /\ pc[s] = "replay"
    /\ idx[s] = Len(snap[s])
    /\ subPos' = [subPos EXCEPT ![s] = SubscribePos]
    /\ cursor' = [cursor EXCEPT ![s] = SubscribePos]
    /\ pc' = [pc EXCEPT ![s] = "loop"]
    /\ rx' = rx + 1
    /\ UNCHANGED <<history, chan, snap, idx, stream, out, closed, doneAt>>

\* lines 61-64: the recv.recv() branch of select!; anything but Ok breaks
StreamRecv(s) ==
    /\ pc[s] = "loop"
    /\ RecvResult(s).tag # "Pending"
    /\ IF RecvResult(s).tag = "Ok"
       THEN /\ stream' = [stream EXCEPT ![s] = Append(@, RecvResult(s).val)]
            /\ cursor' = [cursor EXCEPT ![s] = @ + 1]
            /\ pc' = [pc EXCEPT ![s] = "fwd"]
            /\ UNCHANGED <<snap, idx, subPos, closed, doneAt, rx>>
       ELSE Exit(s, "brk63")
    /\ UNCHANGED <<history, chan, out>>

\* a forward whose failure is ignored: the loop goes on without the value
StreamSendIgnoringFailure(s, ok) ==
    /\ pc[s] = "fwd"
    /\ out' = [out EXCEPT ![s] = IF ok THEN Append(@, Last(stream[s])) ELSE @]
    /\ pc' = [pc EXCEPT ![s] = "loop"]
    /\ UNCHANGED <<history, chan, snap, idx, subPos, cursor, stream, closed, doneAt, rx>>

\* lines 66-69: forward the received value; a failed send returns
StreamSend(s, ok) ==
    /\ pc[s] = "fwd"
    /\ IF ok
       THEN /\ out' = [out EXCEPT ![s] = Append(@, Last(stream[s]))]
            /\ pc' = [pc EXCEPT ![s] = "loop"]
            /\ UNCHANGED <<snap, idx, subPos, cursor, stream, closed, doneAt, rx>>
       ELSE /\ Exit(s, "ret68")
            /\ UNCHANGED out
    /\ UNCHANGED <<history, chan>>

\* lines 72-74: socket.recv() gave None or an error; break
OnClosed(s) ==
    /\ Exit(s, "brk73")
    /\ UNCHANGED chan

\* lines 71-81: the socket.recv() branch of select!; None or Err breaks, a
\* frame whose into_text fails is skipped, any other frame's text is sent
\* on message_channel, and an error of that send (no receiver) breaks
ClientFrame(s, ev) ==
    /\ pc[s] = "loop"
    /\ IF ev.tag # "Frame"
       THEN OnClosed(s)
       ELSE IF ~IntoText(ev.frame).ok
       THEN UNCHANGED <<chan, pc, snap, idx, subPos, cursor, stream, closed, doneAt, rx>>
       ELSE /\ CanSend
            /\ IF ReceiverCount = 0
               THEN /\ Exit(s, "brk80")
                    /\ UNCHANGED chan
               ELSE /\ chan' = Append(chan, [id |-> Len(chan) + 1,
                                            from |-> s,
                                            kind |-> ev.frame.kind,
                                            payload |-> ev.frame.payload,
                                            text |-> IntoText(ev.frame).text])
                    /\ pc' = [pc EXCEPT ![s] = "push"]
                    /\ closed' = [closed EXCEPT ![s] = (ev.frame.kind = "Close")]
                    /\ UNCHANGED <<snap, idx, subPos, cursor, stream, doneAt, rx>>
    /\ UNCHANGED <<history, out>>

\* a push that puts the text in front of the history
HistPushFront(s) ==
    /\ pc[s] = "push"
    /\ history' = <<LastSent(s)>> \o history
    /\ pc' = [pc EXCEPT ![s] = "loop"]
    /\ UNCHANGED <<chan, snap, idx, subPos, cursor, stream, out, closed, doneAt, rx>>

\* line 84: push the text to the history under the lock
HistPush(s) ==
    /\ pc[s] = "push"
    /\ history' = Append(history, LastSent(s))
    /\ pc' = [pc EXCEPT ![s] = "loop"]
    /\ UNCHANGED <<chan, snap, idx, subPos, cursor, stream, out, closed, doneAt, rx>>

\* ------------------------------------------------------- the environment
\* a peer that has sent Close gets no further frame through, and the
\* stream then ends
SendOutcomes(s) == IF closed[s] THEN {FALSE} ELSE BOOLEAN

RecvOutcomes(s) == IF closed[s] THEN {[tag |-> "None"]} ELSE Events

Publishes(ev) == ev.tag = "Frame" /\ IntoText(ev.frame).ok

\* the relay runs alone: the other programs stay as they are
OthersOff == UNCHANGED <<reqVars, mandelVars>>

Next ==
    \/ \E s \in Sessions : Connect(s) /\ OthersOff
    \/ \E s \in Sessions : \E ok \in SendOutcomes(s) : ReplaySend(s, ok) /\ OthersOff
    \/ \E s \in Sessions : Subscribe(s) /\ OthersOff
    \/ \E s \in Sessions : StreamRecv(s) /\ OthersOff
    \/ \E s \in Sessions : \E ok \in SendOutcomes(s) : StreamSend(s, ok) /\ OthersOff
    \/ \E s \in Sessions : \E ev \in RecvOutcomes(s) :
          /\ Publishes(ev) => Len(chan) < MaxPub
          /\ ClientFrame(s, ev)
          /\ OthersOff
    \/ \E s \in Sessions : HistPush(s) /\ OthersOff

Spec == Init /\ [][Next]_vars

\* ---------------------------------------------------------- the long run
\* A run long enough for a receiver to fall more than Capacity behind.
\* Sessions connect to the empty server or to the warm one; in between,
\* the client of session 1 sends Capacity text frames that are published
\* one after the other while no stream is polled.  From there on every
\* session takes every step, for LagExtra more publishes.  In this run
\* clients send text frames only, stay connected, and no socket.send fails.
LagSessions == 1..NLagSessions

MaxPubLag == Capacity + LagExtra

Cold == Len(chan) = 0

Warm == Len(history) >= Capacity

TextA == [tag |-> "Frame", frame |-> [kind |-> "Text", payload |-> "a", utf8 |-> TRUE]]

NextLag ==
    \/ \E s \in LagSessions : (Cold \/ Warm) /\ Connect(s) /\ OthersOff
    \/ \E s \in LagSessions : ReplaySend(s, TRUE) /\ OthersOff
    \/ \E s \in LagSessions : (Cold \/ Warm) /\ Subscribe(s) /\ OthersOff
    \/ \E s \in LagSessions : Warm /\ StreamRecv(s) /\ OthersOff
    \/ \E s \in LagSessions : StreamSend(s, TRUE) /\ OthersOff
    \/ \E s \in LagSessions :
          /\ Warm \/ s = 1
          /\ Len(chan) < MaxPubLag
          /\ ClientFrame(s, TextA)
          /\ OthersOff
    \/ \E s \in LagSessions : HistPush(s) /\ OthersOff

LagSpec == Init /\ [][NextLag]_vars

\* ---------------------------------------------------------- the fair run
\* The steps of Next for FairSessions, with the scheduling the runtime
\* gives: a task that can go on is run again, select! takes a stream value
\* that stays ready, and a socket.send that was started completes, with
\* success or with an error.
FairSessions == 1..NFairSessions

NextFair ==
    \/ \E s \in FairSessions : Connect(s) /\ OthersOff
    \/ \E s \in FairSessions : \E ok \in SendOutcomes(s) : ReplaySend(s, ok) /\ OthersOff
    \/ \E s \in FairSessions : Subscribe(s) /\ OthersOff
    \/ \E s \in FairSessions : StreamRecv(s) /\ OthersOff
    \/ \E s \in FairSessions : \E ok \in SendOutcomes(s) : StreamSend(s, ok) /\ OthersOff
    \/ \E s \in FairSessions : \E ev \in RecvOutcomes(s) :
          /\ Publishes(ev) => Len(chan) < MaxPub
          /\ ClientFrame(s, ev)
          /\ OthersOff
    \/ \E s \in FairSessions : HistPush(s) /\ OthersOff

FairSpec ==
    /\ Init
    /\ [][NextFair]_vars
    /\ \A s \in FairSessions :
          /\ WF_vars(StreamRecv(s))
          /\ WF_vars(\E ok \in SendOutcomes(s) : StreamSend(s, ok))
          /\ WF_vars(HistPush(s))

\* ------------------------------------------------------------ properties
NoRepeat(q) == \A i, j \in 1..Len(q) : q[i].id = q[j].id => i = j

\* C1: every message sent on the channel is in the snapshot of a subscribed
\* session or at a position its subscription delivers (after subPos); none
\* is missing from both.
AtomicJoinNoLoss ==
    \A s \in Subscribed : \A i \in 1..Len(chan) :
        chan[i].id \in Ids(snap[s]) \/ i > subPos[s]

\* C2: no message is sent twice to the client of one session: none is both
\* in the snapshot and on the stream, none is twice on the stream.
NoDuplicateDelivery ==
    \A s \in Sessions :
        /\ NoRepeat(out[s])
        /\ NoRepeat(stream[s])
        /\ Ids(snap[s]) \cap Ids(stream[s]) = {}

\* a session has replayed a snapshot that was not empty and has forwarded a
\* message of its stream after it
ReplayedAndStreamed ==
    \E s \in Sessions :
        /\ pc[s] = "loop"
        /\ Len(snap[s]) > 0
        /\ Len(out[s]) > Len(snap[s])

\* C3: two sessions that both sent the same two messages to their clients
\* sent them in the same relative order.
TotalOrderAgreement ==
    \A s, t \in Sessions : \A j, k \in Ids(out[s]) \cap Ids(out[t]) :
        (Pos(out[s], j) < Pos(out[s], k)) <=> (Pos(out[t], j) < Pos(out[t], k))

\* C4: the order of History is the order of the sends on the channel.
HistoryInPublishOrder ==
    \A i, j \in 1..Len(history) : i < j => history[i].id < history[j].id

\* C5: a session whose receive reports Lagged does not leave its
\* forwarding loop.
LagIsNotAnError ==
    [][\A s \in Sessions :
          (pc[s] = "loop" /\ RecvResult(s).tag = "Lagged") => pc'[s] # "brk63"]_vars

LosslessUnderCapacity ==
    \A s \in Subscribed :
        /\ stream[s] = SubSeq(chan, subPos[s] + 1, cursor[s])
        /\ (cursor[s] < Len(chan) /\ Len(chan) - cursor[s] <= Capacity)
              => RecvResult(s) = [tag |-> "Ok", val |-> chan[cursor[s] + 1]]

\* a session has received a full buffer of values and caught up
ReceivedFullBuffer ==
    \E s \in Subscribed :
        /\ Len(stream[s]) >= Capacity
        /\ cursor[s] = Len(chan)

\* C8: after a session has ended, no publish of another session is
\* refused, every message sent since is in History or about to be pushed
\* by its publisher, and every subscribed session has it at its place on its
\* stream once its cursor has passed it.
DisconnectIsolation ==
    \A t \in Sessions : Done(t) =>
        /\ \A s \in Sessions : pc[s] # "brk80"
        /\ \A i \in (doneAt[t] + 1)..Len(chan) :
              /\ \/ chan[i] \in Range(history)
                 \/ pc[chan[i].from] = "push" /\ LastSent(chan[i].from) = chan[i]
              /\ \A s \in Subscribed :
                    (subPos[s] < i /\ i <= cursor[s])
                        => stream[s][i - subPos[s]] = chan[i]

\* a subscribed session has ended, another has published since, and a third
\* has forwarded that message to its client
PublishedAfterDisconnect ==
    \E t, s, u \in Sessions :
        /\ Cardinality({t, s, u}) = 3
        /\ pc[t] \in {"ret68", "brk73"}
        /\ u \in Subscribed
        /\ \E i \in (doneAt[t] + 1)..Len(chan) :
              /\ chan[i].from = s
              /\ chan[i] \in Range(history)
              /\ chan[i] \in Range(out[u])

\* C9: only text frames cause a publish: every value on the channel and
\* every entry of History comes from a Text frame.
OnlyTextPublished ==
    /\ \A i \in 1..Len(chan) : chan[i].kind = "Text"
    /\ \A i \in 1..Len(history) : history[i].kind = "Text"

\* C10: every value on the channel is the payload of the frame it came
\* from; a subscribed session's stream is the channel from its subscription
\* on, its own messages included, each once; and every frame a session
\* sent to its client is one value of the channel.
VerbatimFanOut ==
    /\ \A i \in 1..Len(chan) : chan[i].text = chan[i].payload /\ chan[i].id = i
    /\ \A s \in Subscribed :
          /\ \A i \in 1..Len(stream[s]) : stream[s][i] = chan[subPos[s] + i]
          /\ \A i \in 1..Len(chan) : chan[i].from = s => i > subPos[s]
    /\ \A s \in Sessions : \A k \in 1..Len(out[s]) :
          /\ out[s][k].id \in 1..Len(chan)
          /\ out[s][k] = chan[out[s][k].id]

\* a session has forwarded to its own client a "b" it published itself
OwnMessageBack ==
    \E s \in Subscribed : \E k \in 1..Len(out[s]) :
        /\ out[s][k].from = s
        /\ out[s][k].payload = "b"
        /\ out[s][k] \in Range(stream[s])

\* the two-session scenario, "hello" being "a" and "world" being "b": A
\* joined the empty server, A published "a", B joined with the snapshot
\* <<"a">>, A published "b", and both have polled their streams to the end
TwoSessionScenario(A, B) ==
    /\ A # B
    /\ pc[A] = "loop" /\ pc[B] = "loop"
    /\ Len(chan) = 2
    /\ chan[1].from = A /\ chan[1].text = "a"
    /\ chan[2].from = A /\ chan[2].text = "b"
    /\ snap[A] = <<>> /\ subPos[A] = 0
    /\ snap[B] = <<chan[1]>> /\ subPos[B] = 1
    /\ RecvResult(A).tag = "Pending" /\ RecvResult(B).tag = "Pending"

\* C11 as stated: in the scenario A's stream yields "world" only, B's
\* stream yields "world" only, and History is <<"hello", "world">>.
ScenarioNoEcho ==
    \A A, B \in Sessions : TwoSessionScenario(A, B) =>
        /\ stream[A] = <<chan[2]>>
        /\ stream[B] = <<chan[2]>>
        /\ history = chan

\* C11 amended: in the scenario A's stream yields "hello" and then "world"
\* (its own publishes come back on its subscription), B's stream yields
\* "world" only, and History is <<"hello", "world">>.
ScenarioWithEcho ==
    \A A, B \in Sessions : TwoSessionScenario(A, B) =>
        /\ stream[A] = <<chan[1], chan[2]>>
        /\ stream[B] = <<chan[2]>>
        /\ history = chan
        /\ out[A] = <<chan[1], chan[2]>>
        /\ out[B] = <<chan[1], chan[2]>>

\* the scenario has been played to its end
ScenarioPlayed == \E A, B \in Sessions : TwoSessionScenario(A, B)

ReplayFailureEnds ==
    [][\A s \in Sessions :
          /\ (pc[s] = "replay" /\ pc'[s] = "replay" /\ idx'[s] # idx[s])
                => /\ idx'[s] = idx[s] + 1
                   /\ out'[s] = Append(out[s], snap[s][idx[s] + 1])
          /\ (pc[s] = "replay" /\ pc'[s] = "loop") => out[s] = snap[s]
          /\ (pc[s] = "replay" /\ pc'[s] \in Exits)
                => /\ pc'[s] = "ret52"
                   /\ history' = history /\ chan' = chan /\ out' = out
                   /\ \A t \in Sessions \ {s} : stream'[t] = stream[t] /\ pc'[t] = pc[t]
          /\ pc[s] = "ret52"
                => /\ pc'[s] = "ret52"
                   /\ out'[s] = out[s]
                   /\ chan' # chan => Last(chan').from # s]_vars

\* a replay has failed after its first message was sent, and publishes
\* went on without it
ReplayFailedMidway ==
    \E s \in Sessions :
        /\ pc[s] = "ret52"
        /\ Len(out[s]) = 1
        /\ Len(history) = 2
        /\ \A i \in 1..Len(chan) : chan[i].from # s

\* C14: no publish is ever refused: no session leaves at line 80, and
\* every value sent is in History or is being pushed by its publisher.
PublishNeverFails ==
    /\ \A s \in Sessions : pc[s] # "brk80"
    /\ \A i \in 1..Len(chan) :
          \/ chan[i] \in Range(history)
          \/ pc[chan[i].from] = "push" /\ LastSent(chan[i].from) = chan[i]

\* a session has published, and its text is in History, while no other
\* session had ever connected
PublishedAlone ==
    \E s \in Sessions :
        /\ \A t \in Sessions \ {s} : pc[t] = "idle"
        /\ \E i \in 1..Len(history) : history[i].from = s

\* C15: every step leaves History as it is or appends to it the one message
\* its publisher has just sent.
HistoryAppendOnly ==
    [][\/ history' = history
       \/ \E s \in Sessions :
             /\ pc[s] = "push" /\ pc'[s] = "loop"
             /\ history' = Append(history, LastSent(s))]_vars

\* History has grown twice
HistoryGrewTwice == Len(history) = 2

HistoryBeforeFanOut ==
    \A i \in 1..Len(chan) : chan[i] \in Range(history)

\* the order of their identities is the order of the messages in q
InSendOrder(q) == \A i, j \in 1..Len(q) : i < j => q[i].id < q[j].id

SameSourceInOrder(q) ==
    \A i, j \in 1..Len(q) : (i < j /\ q[i].from = q[j].from) => q[i].id < q[j].id

\* C18: two messages of one client are in History, and in what any session
\* sent to its client, in the order the client sent them; and a stream
\* yields its values in the order they were sent on the channel.
PerSourceOrder ==
    /\ SameSourceInOrder(chan)
    /\ SameSourceInOrder(history)
    /\ \A s \in Sessions :
          /\ InSendOrder(stream[s])
          /\ SameSourceInOrder(out[s])

\* a session has forwarded from its stream two messages of one and the same
\* other client, both in History
TwoOfOneClientStreamed ==
    \E s \in Sessions :
        /\ Len(stream[s]) = 2 /\ Len(out[s]) = 2 /\ Len(history) = 2
        /\ stream[s][1].from = stream[s][2].from
        /\ stream[s][1].from # s

\* C19: what a session has sent during its replay is the beginning of its
\* snapshot, the snapshot is the beginning of History as it was cloned
\* whatever was published since, and a session in its replay has received
\* no stream value and published nothing; once subscribed, what it sent
\* begins with the whole snapshot.
ReplayIsSnapshotFirst ==
    \A s \in Sessions :
        /\ pc[s] = "replay" =>
              /\ Len(out[s]) = idx[s] /\ idx[s] <= Len(snap[s])
              /\ \A k \in 1..Len(out[s]) : out[s][k] = snap[s][k]
              /\ stream[s] = <<>>
              /\ \A i \in 1..Len(chan) : chan[i].from # s
        /\ s \in Subscribed =>
              /\ Len(out[s]) >= Len(snap[s])
              /\ \A k \in 1..Len(snap[s]) : out[s][k] = snap[s][k]
              /\ \A i \in 1..Len(chan) : chan[i].from = s => i > subPos[s]
        /\ Len(snap[s]) <= Len(history)
        /\ \A k \in 1..Len(snap[s]) : snap[s][k] = history[k]

\* a session is in the middle of its replay, of a snapshot of one message,
\* while History has two
PublishedDuringReplay ==
    \E s \in Sessions :
        /\ pc[s] = "replay"
        /\ Len(snap[s]) = 1
        /\ Len(history) = 2

\* the step at which session s ends on a closed or failed client stream
\* (line 73) or on a failed forward (line 68) changes nothing but s, and
\* an ended session stays ended
EndsLocally(s) ==
    /\ (pc[s] \in {"loop", "fwd"} /\ pc'[s] \in {"ret68", "brk73"})
          => /\ (pc[s] = "fwd") <=> (pc'[s] = "ret68")
             /\ history' = history /\ chan' = chan /\ out' = out
             /\ \A t \in Sessions \ {s} : pc'[t] = pc[t] /\ stream'[t] = stream[t]
             /\ rx' = rx - 1 /\ rx' >= 1
    /\ pc[s] \in {"ret68", "brk73"}
          => pc'[s] = pc[s] /\ out'[s] = out[s]

\* C20: a session that ends on its client stream or on a failed forward
\* ends in that step, touching neither History nor the channel nor any
\* other session, never sends again, and has published nothing for the
\* closing of its client: no value on the channel comes from a Close frame
\* of that client.
TerminationIsLocal ==
    [][\A s \in Sessions :
          /\ EndsLocally(s)
          /\ pc'[s] \in {"ret68", "brk73"}
                => \A i \in 1..Len(chan') :
                      ~(chan'[i].from = s /\ chan'[i].kind = "Close")]_vars

\* the sessions between their send of line 79 and their push of line 84
Publishing == {s \in Sessions : pc[s] = "push"}

\* C21: every entry of History is a value that was sent on the channel, no
\* value is in History twice, and the values of the channel that History
\* lacks are as many as the publishes in progress: with no publish in
\* progress History and the channel hold the same values, each once.
HistoryMatchesFanOut ==
    /\ \A i \in 1..Len(history) :
          /\ history[i].id \in 1..Len(chan)
          /\ history[i] = chan[history[i].id]
    /\ \A i, j \in 1..Len(history) : i # j => history[i].id # history[j].id
    /\ Len(chan) - Len(history) = Cardinality(Publishing)
    /\ Publishing = {} =>
          /\ Len(history) = Len(chan)
          /\ \A i \in 1..Len(chan) : chan[i] \in Range(history)

\* no publish is in progress and History holds both values of the channel,
\* the second one first
SettledOutOfOrder ==
    /\ Publishing = {}
    /\ Len(chan) = 2 /\ Len(history) = 2
    /\ history[1].id = 2

\* =================================================== the request program
\* sections/02_rust_project_concepts/01_rust_enums/src/main.rs
\* ------------------------------------------------------------ enum Status
Started == [tag |-> "Started"]

InProgress == [tag |-> "InProgress"]

Success(msg) == [tag |-> "Success", msg |-> msg]

Error(code) == [tag |-> "Error", code |-> code]

\* the u32 values random() is taken to draw
Codes == 0..MaxCode

\* the Strings a Success is taken to hold
Msgs == {"Data Received!", "other"}

Status ==
    {Started, InProgress} \cup {Success(m) : m \in Msgs} \cup {Error(c) : c \in Codes}

\* matches!(request, Status::Success(_) | Status::Error(_))
Terminal(st) == st.tag \in {"Success", "Error"}

\* Option<Result<String, u32>>
NoneOpt == [tag |-> "None"]

SomeOk(msg) == [tag |-> "Some", res |-> "Ok", msg |-> msg]

SomeErr(code) == [tag |-> "Some", res |-> "Err", code |-> code]

\* impl From<Status> for Option<Result<String, u32>>
IntoOption(st) ==
    CASE st.tag \in {"Started", "InProgress"} -> NoneOpt
      [] st.tag = "Success" -> SomeOk(st.msg)
      [] st.tag = "Error" -> SomeErr(st.code)

start_request == Started

\* an advance that tries again after an error
advance_request_retry(st, low, code) ==
    CASE st.tag = "Started" -> InProgress
      [] st.tag = "InProgress" ->
            IF low THEN Error(code) ELSE Success("Data Received!")
      [] st.tag = "Error" -> InProgress
      [] OTHER -> st

\* an advance that completes a request that has just started
advance_request_eager(st, low, code) ==
    CASE st.tag \in {"Started", "InProgress"} ->
            IF low THEN Error(code) ELSE Success("Data Received!")
      [] OTHER -> st

\* advance_request; low is random::<f32>() < 0.5 and code is random(), both
\* drawn in the InProgress arm only
advance_request(st, low, code) ==
    CASE st.tag = "Started" -> InProgress
      [] st.tag = "InProgress" ->
            IF low THEN Error(code) ELSE Success("Data Received!")
      [] OTHER -> st

\* ----------------------------------------- advance_request called alone
\* A caller holds any Status, calls advance_request on it up to MaxCalls
\* times and then converts it.
CallerInit ==
    /\ RelayInit /\ MandelOff
    /\ request \in Status
    /\ calls = 0
    /\ rpc = "caller"
    /\ status = NoneOpt
    /\ printed = <<>>

Advance ==
    /\ rpc = "caller"
    /\ calls < MaxCalls
    /\ \E low \in BOOLEAN : \E code \in Codes :
          request' = advance_request(request, low, code)
    /\ calls' = calls + 1
    /\ UNCHANGED <<rpc, status, printed>>
    /\ UNCHANGED <<vars, mandelVars>>

Convert ==
    /\ rpc = "caller"
    /\ status' = IntoOption(request)
    /\ rpc' = "converted"
    /\ UNCHANGED <<request, calls, printed>>
    /\ UNCHANGED <<vars, mandelVars>>

CallerNext == Advance \/ Convert

CallerSpec == CallerInit /\ [][CallerNext]_reqVars

\* ------------------------------------------------------------------ main
\* line 88
MainInit ==
    /\ RelayInit /\ MandelOff
    /\ request = start_request
    /\ calls = 0
    /\ rpc = "while"
    /\ status = NoneOpt
    /\ printed = <<>>

\* lines 93-94: the loop test holds, advance_request is called
Iterate ==
    /\ rpc = "while"
    /\ ~Terminal(request)
    /\ \E low \in BOOLEAN : \E code \in Codes :
          request' = advance_request(request, low, code)
    /\ calls' = calls + 1
    /\ rpc' = "print96"
    /\ UNCHANGED <<status, printed>>
    /\ UNCHANGED <<vars, mandelVars>>

\* line 96
PrintNew ==
    /\ rpc = "print96"
    /\ printed' = Append(printed, [line |-> "New Status", arg |-> request])
    /\ rpc' = "while"
    /\ UNCHANGED <<request, calls, status>>
    /\ UNCHANGED <<vars, mandelVars>>

\* lines 93, 103-105: the loop ends, request.into(), return on None
Into ==
    /\ rpc = "while"
    /\ Terminal(request)
    /\ status' = IntoOption(request)
    /\ rpc' = IF IntoOption(request) = NoneOpt THEN "ret104" ELSE "print107"
    /\ UNCHANGED <<request, calls, printed>>
    /\ UNCHANGED <<vars, mandelVars>>

\* line 107
PrintUnhandled ==
    /\ rpc = "print107"
    /\ printed' = Append(printed, [line |-> "Unhandled Status", arg |-> status])
    /\ rpc' = "match"
    /\ UNCHANGED <<request, calls, status>>
    /\ UNCHANGED <<vars, mandelVars>>

\* lines 109-112
Match ==
    /\ rpc = "match"
    /\ printed' = Append(printed,
                         IF status.res = "Ok"
                         THEN [line |-> "Success", arg |-> status.msg]
                         ELSE [line |-> "Failure", arg |-> status.code])
    /\ rpc' = "end"
    /\ UNCHANGED <<request, calls, status>>
    /\ UNCHANGED <<vars, mandelVars>>

MainNext == Iterate \/ PrintNew \/ Into \/ PrintUnhandled \/ Match

\* main is one thread that nothing holds up
MainSpec == MainInit /\ [][MainNext]_reqVars /\ WF_reqVars(MainNext)

\* C22: a call of advance_request moves Started to InProgress and InProgress
\* to the Success of "Data Received!" or to an Error, and leaves a Success
\* and an Error as they are; it never yields Started; and the conversion
\* gives None for Started and InProgress and only for them, Some(Ok) with
\* the message for a Success and Some(Err) with the code for an Error.
RequestStateMachine ==
    [][/\ calls' = calls + 1 =>
             /\ request = Started => request' = InProgress
             /\ request = InProgress =>
                   \/ request' = Success("Data Received!")
                   \/ request'.tag = "Error" /\ request'.code \in Codes
             /\ Terminal(request) => request' = request
             /\ request' # Started
       /\ (rpc = "caller" /\ rpc' = "converted") =>
             /\ status' = NoneOpt <=> request \in {Started, InProgress}
             /\ request.tag = "Success" => status' = SomeOk(request.msg)
             /\ request.tag = "Error" => status' = SomeErr(request.code)]_reqVars

\* an Error was given to advance_request MaxCalls times and then converted
ErrorAdvancedAndConverted ==
    /\ rpc = "converted"
    /\ calls = MaxCalls
    /\ request = Error(1)
    /\ status = SomeErr(1)

\* C23: main leaves its loop after two calls of advance_request and not
\* before, the conversion that follows is Some, the return of line 104 is
\* never taken, the loop is never entered a third time, and main ends.
RequestLoopTerminates ==
    /\ [](rpc \in {"print107", "match", "end", "ret104"} =>
             /\ calls = 2
             /\ Terminal(request)
             /\ status = IntoOption(request)
             /\ status.tag = "Some")
    /\ [](rpc = "while" => (Terminal(request) <=> calls = 2))
    /\ [](calls <= 2 /\ rpc # "ret104")
    /\ <>(rpc = "end")

\* main has ended after a failure, having printed all its lines
MainEndedOnFailure ==
    /\ rpc = "end"
    /\ calls = 2
    /\ request.tag = "Error"
    /\ Len(printed) = 4
    /\ printed[4].line = "Failure"

\* ========================================================= the renderer
\* sections/00_rust_concepts/00_rust_intro/src/main.rs
\* A row of pixels is stood for by its number real_y: calculate_pixel is a
\* function of x and real_y alone, so the row's number fixes its WIDTH
\* characters.
Threads == 0..(THREADS - 1)

\* line 92: calculate_pixels::<{HEIGHT / THREADS}>
ROWS == HEIGHT \div THREADS

\* the holders of the Mutex beside the spawned threads
Free == -1

MainThread == THREADS

\* a thread that starts its rows at its own index
RowOffsetByIndex(index) == index

\* line 68: row_offset
RowOffset(index) == ROWS * index

\* line 79: the slot of output a thread stores into
SlotOf(index) == index

SomeChunk(rows) == [tag |-> "Some", rows |-> rows]

\* line 85, and the first spawn about to happen
MandelInit ==
    /\ RelayInit /\ RequestOff
    /\ output = [i \in Threads |-> [tag |-> "None"]]
    /\ mutex = Free
    /\ tpc = [i \in Threads |-> "unspawned"]
    /\ chunk = [i \in Threads |-> <<>>]
    /\ mpc = "spawn"
    /\ mi = 0
    /\ shown = <<>>
    /\ stores = [i \in Threads |-> <<>>]

\* main's for loops go to the next position once mi has passed the last
\* thread
Step(here, after) ==
    IF mi + 1 < THREADS
    THEN /\ mi' = mi + 1
         /\ mpc' = here
    ELSE /\ mi' = 0
         /\ mpc' = after

\* lines 89-93: spawn thread mi
Spawn ==
    /\ mpc = "spawn"
    /\ tpc' = [tpc EXCEPT ![mi] = "rows"]
    /\ Step("spawn", "join")
    /\ UNCHANGED <<output, mutex, chunk, shown, stores>>
    /\ UNCHANGED <<vars, reqVars>>

\* lines 70-76: one row of output_chunk
CalcRow(t) ==
    /\ tpc[t] = "rows"
    /\ Len(chunk[t]) < ROWS
    /\ chunk' = [chunk EXCEPT ![t] = Append(@, RowOffset(t) + Len(@))]
    /\ UNCHANGED <<output, mutex, tpc, mpc, mi, shown, stores>>
    /\ UNCHANGED <<vars, reqVars>>

\* line 79: output.lock()
Lock(t) ==
    /\ tpc[t] = "rows"
    /\ Len(chunk[t]) = ROWS
    /\ mutex = Free
    /\ mutex' = t
    /\ tpc' = [tpc EXCEPT ![t] = "store"]
    /\ UNCHANGED <<output, chunk, mpc, mi, shown, stores>>
    /\ UNCHANGED <<vars, reqVars>>

\* line 79: the store into the slot, and the guard dropped
Store(t) ==
    /\ tpc[t] = "store"
    /\ output' = [output EXCEPT ![SlotOf(t)] = SomeChunk(chunk[t])]
    /\ stores' = [stores EXCEPT ![SlotOf(t)] = Append(@, t)]
    /\ mutex' = Free
    /\ tpc' = [tpc EXCEPT ![t] = "done"]
    /\ UNCHANGED <<chunk, mpc, mi, shown>>
    /\ UNCHANGED <<vars, reqVars>>

\* lines 96-98: join thread mi
Join ==
    /\ mpc = "join"
    /\ tpc[mi] = "done"
    /\ Step("join", "lock")
    /\ UNCHANGED <<output, mutex, tpc, chunk, shown, stores>>
    /\ UNCHANGED <<vars, reqVars>>

\* line 101
MainLock ==
    /\ mpc = "lock"
    /\ mutex = Free
    /\ mutex' = MainThread
    /\ mpc' = "show"
    /\ UNCHANGED <<output, tpc, chunk, mi, shown, stores>>
    /\ UNCHANGED <<vars, reqVars>>

\* lines 102-115: one chunk of the display, or the return of line 105
Show ==
    /\ mpc = "show"
    /\ IF output[mi].tag = "None"
       THEN /\ mpc' = "err104"
            /\ mutex' = Free
            /\ UNCHANGED <<mi, shown>>
       ELSE /\ shown' = shown \o output[mi].rows
            /\ Step("show", "end")
            /\ mutex' = IF mi + 1 < THREADS THEN mutex ELSE Free
    /\ UNCHANGED <<output, tpc, chunk, stores>>
    /\ UNCHANGED <<vars, reqVars>>

MandelNext ==
    \/ Spawn
    \/ \E t \in Threads : CalcRow(t)
    \/ \E t \in Threads : Lock(t)
    \/ \E t \in Threads : Store(t)
    \/ Join
    \/ MainLock
    \/ Show

MandelSpec == MandelInit /\ [][MandelNext]_mandelVars

\* the rows of the image from the top
RowsInOrder == [k \in 1..HEIGHT |-> k - 1]

\* C24: a slot of output is stored into by the thread of its index only,
\* and at most once; it is Some from the moment that thread is done, with
\* the ROWS rows from ROWS * index on; once main has joined every thread all
\* slots are Some and, taken in slot order, they are the HEIGHT rows of the
\* image in row order, each once; main never reaches the return of line 105
\* and what it has printed at its end is every row in order.
WorkerFanOut ==
    /\ \A i \in Threads :
          /\ \A k \in 1..Len(stores[i]) : stores[i][k] = i
          /\ Len(stores[i]) <= 1
          /\ tpc[i] = "done" <=> Len(stores[i]) = 1
          /\ tpc[i] = "done" <=> output[i].tag = "Some"
          /\ output[i].tag = "Some" =>
                output[i].rows = [y \in 1..ROWS |-> ROWS * i + y - 1]
    /\ mpc \in {"lock", "show", "end"} =>
          /\ \A i \in Threads : output[i].tag = "Some" /\ Len(output[i].rows) = ROWS
          /\ THREADS * ROWS = HEIGHT
          /\ \A k \in 0..(HEIGHT - 1) : output[k \div ROWS].rows[(k % ROWS) + 1] = k
    /\ mpc # "err104"
    /\ mpc = "end" => shown = RowsInOrder

\* every thread has stored its chunk, main has joined them all and printed
\* the image to its last row
ImageShown ==
    /\ mpc = "end"
    /\ \A i \in Threads : stores[i] = <<i>>
    /\ Len(shown) = HEIGHT
    /\ shown[HEIGHT] = HEIGHT - 1

====
